---- MODULE Spec2Model ----
(***************************************************************************)
(* Reliable stream over a key-addressable substrate (stream/stream.go).    *)
(* Two peers, A and B, each run one Stream built from mirrored handshake   *)
(* secrets: what A publishes under its write identifiers is what B fetches *)
(* under its read identifiers, and the other way round.  Every peer has a  *)
(* reader worker, a writer worker, the timer-queue worker that calls       *)
(* retx.Push, and application threads calling Read, Write and Close.       *)
(* An action is a critical section of the stream mutex together with the   *)
(* steps of the same thread that follow it and touch nothing another       *)
(* thread can tell apart: a substrate call, a non-blocking signal.  The    *)
(* places where the code drops a lock between a test and the act that      *)
(* rests on it stay separate actions.                                      *)
(***************************************************************************)
EXTENDS Naturals, Sequences, FiniteSets, TLC

\* ------------------------------------------------------------------ bounds
CloseBytes == 1         \* bytes A writes in the scenario "close"
CloseIdx == 2           \* "close": timers expire while f_write_idx is below this
DataBytes == 2          \* bytes A writes in the scenario "data"
DataIdx == 3            \* "data": timers expire while f_write_idx is below this
BurstBytes == 3         \* bytes A writes in the scenario "burst"
AckBytesA == 1          \* bytes A writes in the scenario "acks"
AckBytesB == 1          \* bytes B writes in the scenario "acks"
AckIdx == 2             \* "acks": A's timers expire while f_write_idx is below this
MaxLoss == 1            \* values the substrate may lose
MaxReadLen == 1         \* largest len(p) passed to Read
MaxWriteLen == 1        \* largest len(p) passed to Write
FramePayloadSize == 1   \* stream.go:765, scaled down
MaxBufFrames == 1       \* stream.go:731 (42 frames), scaled down
CallBytes == 2          \* bytes A writes in the scenario "calls"
MaxTime == 2            \* the clock runs from 0 to this
WindowBytes == 3        \* bytes A writes in the scenario "window"
FailBytes == 1          \* bytes A writes in the scenario
FailIdx == 2            \* "fail"
PayloadSize == 100      \* bytes of a value of the substrate
defaultTimeout == 1     \* stream.go:734 (5 minutes), in ticks of the clock

\* -------------------------------------------------------- program constants
stream_window_size == 3
max_writebuf_size == MaxBufFrames * FramePayloadSize
Uint64 == 2147483647    \* stands for 2^64: the modulus of uint64 arithmetic

Peers == {"A", "B"}
Other(p) == IF p = "A" THEN "B" ELSE "A"

\* A scenario fixes what the environment of the two streams does: how many
\* bytes each application writes, which applications call Close and Read,
\* up to which f_write_idx the retransmission timers of each peer expire,
\* how many values the substrate loses.
Scenario(a, b, cl, rd, rxa, rxb, ls) ==
  [bytes |-> [A |-> a, B |-> b], closers |-> cl, readers |-> rd,
   retx |-> [A |-> rxa, B |-> rxb], loss |-> ls]

\* "close": A writes and closes, B reads
ScenClose == Scenario(CloseBytes, 0, {"A"}, {"B"}, CloseIdx, CloseIdx, 0)
\* "data": A writes, B reads, the substrate loses values
ScenData == Scenario(DataBytes, 0, {}, {"B"}, DataIdx, DataIdx, MaxLoss)
\* "burst": A writes a window of frames and closes, no timer expires
ScenBurst == Scenario(BurstBytes, 0, {"A"}, {}, 0, 0, 0)
\* "acks": both write and A closes, so that the frames of A carry growing
\* Ack values; only the timers of A expire
ScenAcks == Scenario(AckBytesA, AckBytesB, {"A"}, {}, AckIdx, 0, 0)
\* "live": both write, the substrate loses values, nobody closes; only the
\* timers of A expire (a retransmission by B puts the same frame under the
\* same identifier again and advances f_write_idx of B, which nothing in
\* the direction from A to B reads)
ScenLive == Scenario(AckBytesA, AckBytesB, {}, {}, AckIdx, 0, MaxLoss)
\* "calls": A writes, reads and closes; B only runs its workers; no timer
\* expires and nothing is lost
ScenCalls == Scenario(CallBytes, 0, {"A"}, {"A"}, 0, 0, 0)
\* "fail": A writes and closes, B only runs its workers; the timers of A
\* expire
ScenFail == Scenario(FailBytes, 0, {"A"}, {}, FailIdx, 0, 0)
\* "window": A writes a window of frames and closes, B only runs its
\* workers; no timer expires and nothing is lost
ScenWindow == Scenario(WindowBytes, 0, {"A"}, {}, 0, 0, 0)
Scenarios == {ScenClose, ScenData, ScenBurst}

StreamStart == "Start"
StreamData == "Data"
StreamEnd == "End"
StreamOpen == "Open"
StreamClosing == "Closing"
StreamClosed == "Closed"

\* time.Time{}: the zero timestamp, which IsZero reports (241, 258, 293, 307)
ZeroTime == 0

NoFrame == [id |-> 0, Type |-> "None", Ack |-> 0, Payload |-> <<>>]

VARIABLES
  RState, WState,                  \* half states
  f_read_idx, f_write_idx, f_ack_idx,
  wack,                            \* retx.wack: indices waiting for an ack
  writeBuf, readBuf,
  onFlush, onAck, onWrite, onRead, onStreamClose,   \* 1-slot channels
  tq,                              \* timer queue: frames with a pending timer
  store,                           \* substrate: the frames stored under p's write identifiers
  lost,                            \* values the substrate has lost so far
  halted,                          \* HaltCh closed
  scen,                            \* the scenario: what the applications and the environment do
  rpc, rf,                         \* reader: position, frame fetched
  wpc, wf,                         \* writer: position, frame assembled
  tpc, tf,                         \* timer worker inside retx.Push
  rdpc, rdlen, rdres,              \* application thread in Read, its last result
  wrpc, wrlen, wrres,              \* application thread in Write, its last result
  clpc,                            \* application thread in Close
  accepted,                        \* history: bytes appended by Write
  readOut,                         \* history: bytes returned by Read
  appended,                        \* history: frame indices appended to readBuf
  sent,                            \* history: every frame Put, per peer
  acks,                            \* history: indices removed from wack by an ack
  now,                             \* the clock
  readDeadline, writeDeadline,     \* absolute times; ZeroTime when not set
  onUpdateDeadline,                \* 1-slot channel
  sdpc,                            \* application thread in a deadline setter
  rdfire, rdwhy,                   \* blocked Read: when its timer fires; why Read returned
  wrfire, wrwhy,                   \* blocked Write: when its timer fires; why Write returned
  wrseen,                          \* history: frames transmitted when the blocked Write began to block
  cl2pc,                           \* application thread in a further Close
  frameAck, payloadLen,            \* txFrame: Ack and len(Payload) of the frame it is given
  ciphertextLen,                   \* txFrame: len(ciphertext) handed to Put; 0 before
  sMutex, rMutex,                  \* holder of the stream mutex, of the retransmission mutex
  lpc                              \* per thread: the code path it runs and its position on it

streamVars == <<RState, WState, f_read_idx, f_write_idx, f_ack_idx, wack,
                writeBuf, readBuf>>
chanVars == <<onFlush, onAck, onWrite, onRead, onStreamClose>>
envVars == <<tq, store, lost, halted, scen>>
workerVars == <<rpc, rf, wpc, wf, tpc, tf>>
callVars == <<rdpc, rdlen, rdres, wrpc, wrlen, wrres, clpc>>
histVars == <<accepted, readOut, appended, sent, acks>>
timeVars == <<now, readDeadline, writeDeadline, onUpdateDeadline, sdpc>>
rdAux == <<rdfire, rdwhy>>
wrAux == <<wrfire, wrwhy, wrseen>>
sizeVars == <<frameAck, payloadLen, ciphertextLen>>
lockVars == <<sMutex, rMutex, lpc>>
newVars == <<timeVars, rdAux, wrAux, cl2pc, sizeVars, lockVars>>
vars == <<streamVars, chanVars, envVars, workerVars, callVars, histVars,
          newVars>>

\* ---------------------------------------------------------------- helpers
Min(a, b) == IF a < b THEN a ELSE b

\* uint64 subtraction a - b (wraps below zero)
USub(a, b) == IF a >= b THEN a - b ELSE Uint64 - (b - a) + 1

Take(s, n) == SubSeq(s, 1, Min(n, Len(s)))
Drop(s, n) == SubSeq(s, Min(n, Len(s)) + 1, Len(s))

\* the bytes a Write of n bytes appends: the k-th byte ever appended is k
NewBytes(p, n) == [i \in 1..n |-> accepted[p] + i]

InitStream(S) ==
  /\ scen \in S
  /\ RState = [p \in Peers |-> StreamOpen]
  /\ WState = [p \in Peers |-> StreamOpen]
  /\ f_read_idx = [p \in Peers |-> 0]
  /\ f_write_idx = [p \in Peers |-> 0]
  /\ f_ack_idx = [p \in Peers |-> 0]
  /\ wack = [p \in Peers |-> {}]
  /\ writeBuf = [p \in Peers |-> <<>>]
  /\ readBuf = [p \in Peers |-> <<>>]
  /\ onFlush = [p \in Peers |-> FALSE]
  /\ onAck = [p \in Peers |-> FALSE]
  /\ onWrite = [p \in Peers |-> FALSE]
  /\ onRead = [p \in Peers |-> FALSE]
  /\ onStreamClose = [p \in Peers |-> FALSE]
  /\ tq = [p \in Peers |-> {}]
  /\ store = [p \in Peers |-> {}]
  /\ lost = 0
  /\ halted = [p \in Peers |-> FALSE]
  /\ rpc = [p \in Peers |-> "top"]
  /\ rf = [p \in Peers |-> NoFrame]
  /\ wpc = [p \in Peers |-> "top"]
  /\ wf = [p \in Peers |-> NoFrame]
  /\ tpc = [p \in Peers |-> "idle"]
  /\ tf = [p \in Peers |-> NoFrame]
  /\ rdpc = [p \in Peers |-> "idle"]
  /\ rdlen = [p \in Peers |-> 0]
  /\ rdres = [p \in Peers |-> "none"]
  /\ wrpc = [p \in Peers |-> "idle"]
  /\ wrlen = [p \in Peers |-> 0]
  /\ wrres = [p \in Peers |-> "none"]
  /\ clpc = [p \in Peers |-> "idle"]
  /\ accepted = [p \in Peers |-> 0]
  /\ readOut = [p \in Peers |-> <<>>]
  /\ appended = [p \in Peers |-> <<>>]
  /\ sent = [p \in Peers |-> {}]
  /\ acks = [p \in Peers |-> {}]
  /\ now = 0
  /\ readDeadline = [p \in Peers |-> ZeroTime]
  /\ writeDeadline = [p \in Peers |-> ZeroTime]
  /\ onUpdateDeadline = [p \in Peers |-> FALSE]
  /\ sdpc = [p \in Peers |-> "idle"]
  /\ rdfire = [p \in Peers |-> 0]
  /\ rdwhy = [p \in Peers |-> "none"]
  /\ wrfire = [p \in Peers |-> 0]
  /\ wrwhy = [p \in Peers |-> "none"]
  /\ wrseen = [p \in Peers |-> 0]
  /\ cl2pc = [p \in Peers |-> "idle"]

\* The streams as NewStream leaves them; no frame length is looked at.
\* the threads that take the two mutexes: the two workers (751-752), the
\* timer queue's worker inside retx.Push, one thread of the application
Threads == {"writer", "reader", "timer", "call"}
NoThread == "none"
NoPath == [path |-> <<>>, pc |-> 0]

\* both mutexes start unlocked, no thread has entered a locked region
InitLocks ==
  /\ sMutex = NoThread
  /\ rMutex = NoThread
  /\ lpc = [t \in Threads |-> NoPath]

InitIn(S) ==
  /\ InitStream(S)
  /\ frameAck = 0
  /\ payloadLen = 0
  /\ ciphertextLen = 0
  /\ InitLocks

Init == InitIn(Scenarios)

\* ----------------------------------------------------- signals (638-657)
\* a non-blocking send on a 1-slot channel: the slot is full afterwards
doFlush(p) == onFlush' = [onFlush EXCEPT ![p] = TRUE]
doOnRead(p) == onRead' = [onRead EXCEPT ![p] = TRUE]
doOnWrite(p) == onWrite' = [onWrite EXCEPT ![p] = TRUE]

\* ------------------------------------------------------ txFrame (525-579)
\* (a txFrame that takes the Ack of every frame it is given)
TxAckIdxAlways(cur, ack) == ack

\* 536-539: f_ack_idx follows the Ack of the frame, upwards only
TxAckIdx(cur, ack) == IF ack > cur THEN ack ELSE cur

\* (a txFrame that leaves f_write_idx where it is)
TxWriteIdxKeep(cur) == cur

\* 562-564: every successful Put advances f_write_idx
TxWriteIdx(cur) == cur + 1

\* The substrate keeps one value per identifier: a Put under an identifier
\* that holds a value replaces it, a Get returns the value stored under the
\* identifier, or fails.
StorePut(st, f) == {g \in st : g.id # f.id} \cup {f}
StoreGet(st, idx) == {g \in st : g.id = idx}

\* 558: Put of frame f under the identifier of index f.id
Put(p, f) ==
  /\ store' = [store EXCEPT ![p] = StorePut(@, f)]
  /\ sent' = [sent EXCEPT ![p] = @ \cup {f}]

\* 573-579: txEnqueue
txEnqueue(p, f) ==
  /\ wack' = [wack EXCEPT ![p] = @ \cup {f.id}]
  /\ tq' = [tq EXCEPT ![p] = @ \cup {f}]

\* ------------------------------------------------------- writer (407-493)
\* (a stream on which a full window of unacknowledged frames obliges nothing)
MustAckWindowNever(p) == FALSE

\* 425-427
MustAckWindow(p) == USub(f_read_idx[p], f_ack_idx[p]) >= stream_window_size

\* (a writer that tears down without looking at the two halves)
TeardownAlways(p) == TRUE

\* 428
Teardown(p) == RState[p] = StreamClosed \/ WState[p] = StreamClosing

\* 425-439
MustAck(p) ==
  \/ MustAckWindow(p)
  \/ Teardown(p) /\ USub(f_read_idx[p], f_ack_idx[p]) > 0

\* (a writer that tears down whatever writeBuf still holds)
MustTeardownAnyBuf(p) == Teardown(p)

\* 428-435
MustTeardown(p) == Teardown(p) /\ Len(writeBuf[p]) = 0

\* 443-446
MustWait(p) ==
  /\ Cardinality(wack[p]) >= stream_window_size \/ Len(writeBuf[p]) = 0
  /\ WState[p] # StreamClosing

\* (a writer that acknowledges one index further than the reader stands)
AckFieldNext(p) == f_read_idx[p] + 1

\* 464-466: the Ack of the frame the writer assembles
AckField(p) == f_read_idx[p]

\* (a writer that leaves WState alone when it assembles the End frame)
WStateKeep(cur, teardown) == cur

\* 468-472: assembling the End frame closes the write half
WStateAfter(cur, teardown) == IF teardown THEN StreamClosed ELSE cur

\* (a writer that copies the payload and leaves it in the buffer)
UnsentKeep(buf) == buf

\* 475: writeBuf.Read takes the payload out of the buffer
Unsent(buf) == Drop(buf, FramePayloadSize)

\* (a writer that signals the close channel as soon as Close was called)
WriterFinishedEarly(p) == WState[p] # StreamOpen

\* 418-419
WriterFinished(p) == WState[p] = StreamClosed

NewFrame(p, teardown) ==
  [id |-> f_write_idx[p],
   Type |-> IF teardown THEN StreamEnd ELSE StreamStart,
   Ack |-> AckField(p),
   Payload |-> Take(writeBuf[p], FramePayloadSize)]

\* 410-414 with halt closed, 417-422 with WState Closed: the writer leaves
WriterExit(p) ==
  /\ wpc[p] = "top"
  /\ \/ /\ halted[p]
        /\ UNCHANGED onStreamClose
     \/ /\ ~halted[p]
        /\ WriterFinished(p)
        /\ ~onStreamClose[p]          \* the send at 420 blocks on a full slot
        /\ onStreamClose' = [onStreamClose EXCEPT ![p] = TRUE]
  /\ wpc' = [wpc EXCEPT ![p] = "exit"]
  /\ UNCHANGED <<streamVars, onFlush, onAck, onWrite, onRead, envVars,
                 rpc, rf, wf, tpc, tf, callVars, histVars>>
  /\ UNCHANGED newVars

\* 440-457: nothing obliges a frame; release the lock, wait if need be
WriterCheck(p) ==
  /\ wpc[p] = "top"
  /\ ~halted[p]
  /\ ~WriterFinished(p)
  /\ ~MustAck(p) /\ ~MustTeardown(p)
  /\ wpc' = [wpc EXCEPT ![p] = IF MustWait(p) THEN "wait" ELSE "assemble"]
  /\ UNCHANGED <<streamVars, chanVars, envVars, rpc, rf, wf, tpc, tf,
                 callVars, histVars>>
  /\ UNCHANGED newVars

\* 450-455
WriterWait(p) ==
  /\ wpc[p] = "wait"
  /\ \/ /\ onFlush[p]
        /\ onFlush' = [onFlush EXCEPT ![p] = FALSE]
        /\ wpc' = [wpc EXCEPT ![p] = "assemble"]
        /\ UNCHANGED onAck
     \/ /\ onAck[p]
        /\ onAck' = [onAck EXCEPT ![p] = FALSE]
        /\ wpc' = [wpc EXCEPT ![p] = "assemble"]
        /\ UNCHANGED onFlush
     \/ /\ halted[p]
        /\ wpc' = [wpc EXCEPT ![p] = "exit"]
        /\ UNCHANGED <<onFlush, onAck>>
  /\ UNCHANGED <<streamVars, onWrite, onRead, onStreamClose, envVars,
                 rpc, rf, wf, tpc, tf, callVars, histVars>>
  /\ UNCHANGED newVars

\* 457-482 after the wait: mustAck and mustTeardown are still false
WriterAssemble(p) ==
  /\ wpc[p] = "assemble"
  /\ LET f == NewFrame(p, FALSE) IN
       /\ wf' = [wf EXCEPT ![p] = f]
       /\ writeBuf' = [writeBuf EXCEPT ![p] = Unsent(@)]
       /\ wpc' = [wpc EXCEPT ![p] = IF Len(f.Payload) > 0 THEN "put" ELSE "top"]
  /\ UNCHANGED <<RState, WState, f_read_idx, f_write_idx, f_ack_idx, wack,
                 readBuf, chanVars, envVars, rpc, rf, tpc, tf, callVars,
                 histVars>>
  /\ UNCHANGED newVars

\* 458-482 without the wait: an ack or the End frame is due
WriterOblige(p) ==
  /\ wpc[p] = "top"
  /\ ~halted[p]
  /\ ~WriterFinished(p)
  /\ MustAck(p) \/ MustTeardown(p)
  /\ wf' = [wf EXCEPT ![p] = NewFrame(p, MustTeardown(p))]
  /\ WState' = [WState EXCEPT ![p] = WStateAfter(@, MustTeardown(p))]
  /\ writeBuf' = [writeBuf EXCEPT ![p] = Unsent(@)]
  /\ wpc' = [wpc EXCEPT ![p] = "put"]
  /\ UNCHANGED <<RState, f_read_idx, f_write_idx, f_ack_idx, wack, readBuf,
                 chanVars, envVars, rpc, rf, tpc, tf, callVars, histVars>>
  /\ UNCHANGED newVars

\* 525-561: f_ack_idx follows the frame's Ack, then the frame is Put
WriterTxPut(p) ==
  /\ wpc[p] = "put"
  /\ f_ack_idx' = [f_ack_idx EXCEPT ![p] = TxAckIdx(@, wf[p].Ack)]
  /\ Put(p, wf[p])
  /\ wpc' = [wpc EXCEPT ![p] = "done"]
  /\ UNCHANGED <<RState, WState, f_read_idx, f_write_idx, wack, writeBuf,
                 readBuf, chanVars, tq, lost, halted, scen, rpc, rf, wf, tpc, tf,
                 callVars, accepted, readOut, appended, acks>>
  /\ UNCHANGED newVars

\* 484-486, 672, 682: a panic in the writer (w = "writer") or in the reader
\* (w = "reader") ends the process of p: its other worker, the timer worker
\* and the calls of its application are dead
Panic(p, w) ==
  /\ wpc' = [wpc EXCEPT ![p] = IF w = "writer" THEN "panic" ELSE "dead"]
  /\ rpc' = [rpc EXCEPT ![p] = IF w = "reader" THEN "panic" ELSE "dead"]
  /\ tpc' = [tpc EXCEPT ![p] = "dead"]
  /\ rdpc' = [rdpc EXCEPT ![p] = "dead"]
  /\ wrpc' = [wrpc EXCEPT ![p] = "dead"]
  /\ clpc' = [clpc EXCEPT ![p] = "dead"]
  /\ UNCHANGED <<rf, wf, tf, rdlen, rdres, wrlen, wrres>>

\* 525-560 and 483-486: Put fails; txFrame returns the error before it
\* reaches 562-570, and the writer panics
WriterTxPutFail(p) ==
  /\ wpc[p] = "put"
  /\ f_ack_idx' = [f_ack_idx EXCEPT ![p] = TxAckIdx(@, wf[p].Ack)]
  /\ Panic(p, "writer")
  /\ UNCHANGED <<RState, WState, f_read_idx, f_write_idx, wack, writeBuf,
                 readBuf, chanVars, envVars, histVars>>
  /\ UNCHANGED newVars

\* 562-570 and 489: f_write_idx advances, the frame is enqueued for
\* retransmission, a Write blocked on the buffer cap is signalled
WriterTxDone(p) ==
  /\ wpc[p] = "done"
  /\ f_write_idx' = [f_write_idx EXCEPT ![p] = TxWriteIdx(@)]
  /\ txEnqueue(p, wf[p])
  /\ doOnWrite(p)
  /\ wpc' = [wpc EXCEPT ![p] = "top"]
  /\ UNCHANGED <<RState, WState, f_read_idx, f_ack_idx, writeBuf, readBuf,
                 onFlush, onAck, onRead, onStreamClose, store, lost, halted, scen,
                 rpc, rf, wf, tpc, tf, callVars, histVars>>
  /\ UNCHANGED newVars

\* ------------------------------------------------- retx.Push (166-181)
\* The timer queue hands an expired entry to Push, one entry at a time.
\* 173-179: the entry is dropped when its index is no longer in wack.
StillWaiting(p, f) == f.id \in wack[p]

\* The timer queue calls Push with one entry at a time; which pending entry
\* is due next depends on the clock, which the model leaves open.
Due(p) == tq[p]

\* (a Push that brings the Ack of the frame up to date before it is sent)
RetxFresh(p, f) == [f EXCEPT !.Ack = f_read_idx[p]]

\* 180: Push hands txFrame the frame the entry holds, as it is
Retx(p, f) == f

TimerExpire(p) ==
  /\ tpc[p] = "idle"
  /\ ~halted[p]
  /\ f_write_idx[p] < scen.retx[p]
  /\ \E f \in Due(p) :
       /\ tq' = [tq EXCEPT ![p] = @ \ {f}]
       /\ IF StillWaiting(p, f)
            THEN /\ tpc' = [tpc EXCEPT ![p] = "put"]
                 /\ tf' = [tf EXCEPT ![p] = Retx(p, f)]
            ELSE UNCHANGED <<tpc, tf>>
  /\ UNCHANGED <<streamVars, chanVars, store, lost, halted, scen, rpc, rf, wpc, wf,
                 callVars, histVars>>
  /\ UNCHANGED newVars

\* 525-561, called from Push
TimerTxPut(p) ==
  /\ tpc[p] = "put"
  /\ f_ack_idx' = [f_ack_idx EXCEPT ![p] = TxAckIdx(@, tf[p].Ack)]
  /\ Put(p, tf[p])
  /\ tpc' = [tpc EXCEPT ![p] = "done"]
  /\ UNCHANGED <<RState, WState, f_read_idx, f_write_idx, wack, writeBuf,
                 readBuf, chanVars, tq, lost, halted, scen, rpc, rf, wpc, wf, tf,
                 callVars, accepted, readOut, appended, acks>>
  /\ UNCHANGED newVars

\* 525-560, called from Push: Put fails; txFrame returns the error before
\* it reaches 562-570, Push returns it to the timer queue
TimerTxPutFail(p) ==
  /\ tpc[p] = "put"
  /\ f_ack_idx' = [f_ack_idx EXCEPT ![p] = TxAckIdx(@, tf[p].Ack)]
  /\ tpc' = [tpc EXCEPT ![p] = "idle"]
  /\ UNCHANGED <<RState, WState, f_read_idx, f_write_idx, wack, writeBuf,
                 readBuf, chanVars, envVars, rpc, rf, wpc, wf, tf, callVars,
                 histVars>>
  /\ UNCHANGED newVars

\* 562-570, called from Push
TimerTxDone(p) ==
  /\ tpc[p] = "done"
  /\ f_write_idx' = [f_write_idx EXCEPT ![p] = TxWriteIdx(@)]
  /\ txEnqueue(p, tf[p])
  /\ tpc' = [tpc EXCEPT ![p] = "idle"]
  /\ UNCHANGED <<RState, WState, f_read_idx, f_ack_idx, writeBuf, readBuf,
                 chanVars, store, lost, halted, scen, rpc, rf, wpc, wf, tf,
                 callVars, histVars>>
  /\ UNCHANGED newVars

\* ------------------------------------------------------- reader (184-236)
\* 186-190 with halt closed, 194-203 with RState Closed: the reader leaves
ReaderExit(p) ==
  /\ rpc[p] = "top"
  /\ \/ /\ halted[p]
        /\ UNCHANGED onFlush
     \/ /\ ~halted[p]
        /\ RState[p] = StreamClosed
        /\ IF f_read_idx[p] > f_ack_idx[p] THEN doFlush(p) ELSE UNCHANGED onFlush
  /\ rpc' = [rpc EXCEPT ![p] = "exit"]
  /\ UNCHANGED <<streamVars, onAck, onWrite, onRead, onStreamClose, envVars,
                 rf, wpc, wf, tpc, tf, callVars, histVars>>
  /\ UNCHANGED newVars

\* 204-212
ReaderProd(p) ==
  /\ rpc[p] = "top"
  /\ ~halted[p]
  /\ RState[p] # StreamClosed
  /\ IF RState[p] = StreamOpen /\ MustAckWindow(p)
       THEN doFlush(p) ELSE UNCHANGED onFlush
  /\ rpc' = [rpc EXCEPT ![p] = "get"]
  /\ UNCHANGED <<streamVars, onAck, onWrite, onRead, onStreamClose, envVars,
                 rf, wpc, wf, tpc, tf, callVars, histVars>>
  /\ UNCHANGED newVars

\* 690-708
Acked(p, ack) == {i \in wack[p] : i <= ack}

processAck(p, f) ==
  /\ wack' = [wack EXCEPT ![p] = @ \ Acked(p, f.Ack)]
  /\ acks' = [acks EXCEPT ![p] = @ \cup Acked(p, f.Ack)]
  /\ IF Acked(p, f.Ack) # {}
       THEN onAck' = [onAck EXCEPT ![p] = TRUE]
       ELSE UNCHANGED onAck

\* (a readFrame that takes every value for a frame)
OpensAlways(g) == TRUE

\* 670-685: secretbox.Open and cbor.Unmarshal succeed on the value
Opens(g) == g.Type # "Damaged"

\* 215-221 and 659-688: Get of the frame under the peer's index f_read_idx,
\* which comes back with the local id set to the index asked for, then
\* processAck
ReaderGet(p) ==
  /\ rpc[p] = "get"
  /\ \E g \in StoreGet(store[Other(p)], f_read_idx[p]) :
       /\ Opens(g)
       /\ rf' = [rf EXCEPT ![p] = [g EXCEPT !.id = f_read_idx[p]]]
       /\ processAck(p, g)
       /\ rpc' = [rpc EXCEPT ![p] = "append"]
  /\ UNCHANGED <<RState, WState, f_read_idx, f_write_idx, f_ack_idx, writeBuf,
                 readBuf, onFlush, onWrite, onRead, onStreamClose, envVars,
                 wpc, wf, tpc, tf, callVars, accepted, readOut, appended,
                 sent>>
  /\ UNCHANGED newVars

\* 670-685: the value fetched does not open or does not unmarshal, and
\* readFrame panics
ReaderGetDamaged(p) ==
  /\ rpc[p] = "get"
  /\ \E g \in StoreGet(store[Other(p)], f_read_idx[p]) : ~Opens(g)
  /\ Panic(p, "reader")
  /\ UNCHANGED <<streamVars, chanVars, envVars, histVars>>
  /\ UNCHANGED newVars

\* 215-218 then 186-212: the Get fails (nothing stored, or a transient
\* error), the reader continues with the top of its loop
ReaderRetry(p) ==
  /\ rpc[p] = "get"
  /\ IF halted[p]
       THEN /\ rpc' = [rpc EXCEPT ![p] = "exit"]
            /\ UNCHANGED onFlush
       ELSE IF RState[p] = StreamClosed
         THEN /\ rpc' = [rpc EXCEPT ![p] = "exit"]
              /\ IF f_read_idx[p] > f_ack_idx[p]
                   THEN doFlush(p) ELSE UNCHANGED onFlush
         ELSE /\ UNCHANGED rpc
              /\ IF RState[p] = StreamOpen /\ MustAckWindow(p)
                   THEN doFlush(p) ELSE UNCHANGED onFlush
  /\ UNCHANGED <<streamVars, onAck, onWrite, onRead, onStreamClose, envVars,
                 rf, wpc, wf, tpc, tf, callVars, histVars>>
  /\ UNCHANGED newVars

\* (a reader that never advances f_read_idx)
ReadIdxKeep(idx, type) == idx

\* 226-231
ReadIdxAfter(idx, type) == IF type = StreamEnd THEN idx ELSE idx + 1
\* (a reader that moves the read half to Closing on the peer's End)
RStateAfterClosing(cur, type) == IF type = StreamEnd THEN StreamClosing ELSE cur

\* 227-229
RStateAfter(cur, type) == IF type = StreamEnd THEN StreamClosed ELSE cur

\* 222-233
ReaderAppend(p) ==
  /\ rpc[p] = "append"
  /\ readBuf' = [readBuf EXCEPT ![p] = @ \o rf[p].Payload]
  /\ appended' = [appended EXCEPT ![p] = Append(@, rf[p].id)]
  /\ RState' = [RState EXCEPT ![p] = RStateAfter(@, rf[p].Type)]
  /\ f_read_idx' = [f_read_idx EXCEPT ![p] = ReadIdxAfter(@, rf[p].Type)]
  /\ doOnRead(p)
  /\ rpc' = [rpc EXCEPT ![p] = "top"]
  /\ UNCHANGED <<WState, f_write_idx, f_ack_idx, wack, writeBuf, onFlush,
                 onAck, onWrite, onStreamClose, envVars, rf, wpc, wf, tpc, tf,
                 callVars, accepted, readOut, sent, acks>>
  /\ UNCHANGED newVars

\* ------------------------------------------------------------- substrate
\* the substrate may lose a stored value
Lose(p) ==
  /\ lost < scen.loss
  /\ \E g \in store[p] : store' = [store EXCEPT ![p] = @ \ {g}]
  /\ lost' = lost + 1
  /\ UNCHANGED <<streamVars, chanVars, tq, halted, scen, workerVars, callVars,
                 histVars>>
  /\ UNCHANGED newVars

\* the substrate hands back a stored value damaged
Damage(p) ==
  /\ \E g \in store[p] :
       /\ g.Type # "Damaged"
       /\ store' = [store EXCEPT ![p] =
                      (@ \ {g}) \cup {[g EXCEPT !.Type = "Damaged"]}]
  /\ UNCHANGED <<streamVars, chanVars, tq, lost, halted, scen, workerVars,
                 callVars, histVars>>
  /\ UNCHANGED newVars

\* --------------------------------------------------------- Read (239-282)
\* 241-246, 293-298: a deadline is set and the clock is past it
Elapsed(d) == d # ZeroTime /\ now > d

\* 257-264, 306-313: when the timer of a call that blocks now fires
FireTime(d) == IF d # ZeroTime THEN d ELSE now + defaultTimeout

\* 257-261, 306-310: which timer a call that blocks now arms, the one of
\* the deadline or the one of defaultTimeout
TimerKind(d) == IF d # ZeroTime THEN "wait-deadline" ELSE "wait-default"

\* 264, 313: the timer that has fired
TimerFired(k) == IF k = "wait-deadline" THEN "deadline-timer" ELSE "default-timer"

\* 247-254: the tests that make Read return EOF before it looks at readBuf
ReadSeesClosed(p) == RState[p] = StreamClosed \/ WState[p] = StreamClosed

\* 273-281: readBuf.Read(p) under the lock; bytes.Buffer reports EOF when empty
ReadFromBuf(p, n) ==
  IF Len(readBuf[p]) = 0
    THEN /\ rdres' = [rdres EXCEPT ![p] = "EOF"]
         /\ UNCHANGED <<readBuf, readOut>>
    ELSE /\ rdres' = [rdres EXCEPT ![p] = "data"]
         /\ readOut' = [readOut EXCEPT ![p] = @ \o Take(readBuf[p], n)]
         /\ readBuf' = [readBuf EXCEPT ![p] = Drop(@, n)]

\* 264-265: what Read returns when its timer fires
ReadTimeoutErr == "EOF"

\* 240-262 and, with bytes buffered, 273-281
Read(p) ==
  /\ rdpc[p] = "idle"
  /\ \E n \in 1..MaxReadLen :
       IF Elapsed(readDeadline[p])
         THEN /\ rdres' = [rdres EXCEPT ![p] = "deadline"]
              /\ rdwhy' = [rdwhy EXCEPT ![p] = "deadline"]
              /\ UNCHANGED <<readBuf, readOut, rdpc, rdlen, rdfire>>
         ELSE IF ReadSeesClosed(p)
           THEN /\ rdres' = [rdres EXCEPT ![p] = "EOF"]
                /\ rdwhy' = [rdwhy EXCEPT ![p] = "closed"]
                /\ UNCHANGED <<readBuf, readOut, rdpc, rdlen, rdfire>>
           ELSE IF Len(readBuf[p]) = 0
             THEN /\ rdpc' = [rdpc EXCEPT ![p] = "blocked"]
                  /\ rdlen' = [rdlen EXCEPT ![p] = n]
                  /\ rdfire' = [rdfire EXCEPT ![p] = FireTime(readDeadline[p])]
                  /\ rdwhy' = [rdwhy EXCEPT ![p] = TimerKind(readDeadline[p])]
                  /\ UNCHANGED <<readBuf, readOut, rdres>>
             ELSE /\ ReadFromBuf(p, n)
                  /\ rdlen' = [rdlen EXCEPT ![p] = n]
                  /\ rdwhy' = [rdwhy EXCEPT ![p] = "buffer"]
                  /\ UNCHANGED <<rdpc, rdfire>>
  /\ UNCHANGED <<RState, WState, f_read_idx, f_write_idx, f_ack_idx, wack,
                 writeBuf, chanVars, envVars, workerVars, wrpc, wrlen, wrres,
                 clpc, accepted, appended, sent, acks>>
  /\ UNCHANGED <<timeVars, wrAux, cl2pc>>
  /\ UNCHANGED <<sizeVars, lockVars>>

\* The application reads until it is told EOF.
ReadCall(p) ==
  /\ p \in scen.readers
  /\ rdres[p] # "EOF"
  /\ Read(p)

\* 268-281: a frame has been read; Read takes what readBuf holds
ReadWake(p) ==
  /\ rdpc[p] = "blocked"
  /\ onRead[p]
  /\ onRead' = [onRead EXCEPT ![p] = FALSE]
  /\ ReadFromBuf(p, rdlen[p])
  /\ rdpc' = [rdpc EXCEPT ![p] = "idle"]
  /\ rdwhy' = [rdwhy EXCEPT ![p] = "buffer"]
  /\ UNCHANGED <<RState, WState, f_read_idx, f_write_idx, f_ack_idx, wack,
                 writeBuf, onFlush, onAck, onWrite, onStreamClose, envVars,
                 workerVars, rdlen, wrpc, wrlen, wrres, clpc, accepted,
                 appended, sent, acks>>
  /\ rdfire' = [rdfire EXCEPT ![p] = 0]
  /\ UNCHANGED <<timeVars, wrAux, cl2pc>>
  /\ UNCHANGED <<sizeVars, lockVars>>

\* 264-265: the timer of the blocked Read fires
ReadTimeout(p) ==
  /\ rdpc[p] = "blocked"
  /\ now >= rdfire[p]
  /\ rdpc' = [rdpc EXCEPT ![p] = "idle"]
  /\ rdres' = [rdres EXCEPT ![p] = ReadTimeoutErr]
  /\ rdwhy' = [rdwhy EXCEPT ![p] = TimerFired(@)]
  /\ UNCHANGED <<streamVars, chanVars, envVars, workerVars, rdlen, wrpc,
                 wrlen, wrres, clpc, histVars>>
  /\ rdfire' = [rdfire EXCEPT ![p] = 0]
  /\ UNCHANGED <<timeVars, wrAux, cl2pc>>
  /\ UNCHANGED <<sizeVars, lockVars>>

\* 266-267: the stream is halted
ReadHalted(p) ==
  /\ rdpc[p] = "blocked"
  /\ halted[p]
  /\ rdpc' = [rdpc EXCEPT ![p] = "idle"]
  /\ rdres' = [rdres EXCEPT ![p] = "EOF"]
  /\ rdwhy' = [rdwhy EXCEPT ![p] = "halt"]
  /\ UNCHANGED <<streamVars, chanVars, envVars, workerVars, rdlen, wrpc,
                 wrlen, wrres, clpc, histVars>>
  /\ rdfire' = [rdfire EXCEPT ![p] = 0]
  /\ UNCHANGED <<timeVars, wrAux, cl2pc>>
  /\ UNCHANGED <<sizeVars, lockVars>>

\* 264-267: the timeout fires, or the stream is halted
ReadGiveUp(p) == ReadTimeout(p) \/ ReadHalted(p)

\* -------------------------------------------------------- Write (285-327)
\* 289
WriteSeesClosed(p) == WState[p] = StreamClosed \/ WState[p] = StreamClosing

\* 323-326: writeBuf.Write(p), then doFlush
WriteToBuf(p, n) ==
  /\ writeBuf' = [writeBuf EXCEPT ![p] = @ \o NewBytes(p, n)]
  /\ accepted' = [accepted EXCEPT ![p] = @ + n]
  /\ doFlush(p)
  /\ wrres' = [wrres EXCEPT ![p] = "ok"]

\* 313-314: what Write returns when its timer fires
WriteTimeoutErr == "EOF"

\* the frames the writer has transmitted so far
Transmitted(p) == Cardinality(sent[p])

\* 287-311 and, below the cap, 323-326
WriteCall(p) ==
  /\ wrpc[p] = "idle"
  /\ \E n \in 1..MaxWriteLen :
       /\ accepted[p] + n <= scen.bytes[p]
       /\ wrlen' = [wrlen EXCEPT ![p] = n]
       /\ IF WriteSeesClosed(p)
            THEN /\ wrres' = [wrres EXCEPT ![p] = "EOF"]
                 /\ wrwhy' = [wrwhy EXCEPT ![p] = "closed"]
                 /\ UNCHANGED <<writeBuf, accepted, wrpc, onFlush, wrfire,
                                wrseen>>
            ELSE IF Elapsed(writeDeadline[p])
              THEN /\ wrres' = [wrres EXCEPT ![p] = "deadline"]
                   /\ wrwhy' = [wrwhy EXCEPT ![p] = "deadline"]
                   /\ UNCHANGED <<writeBuf, accepted, wrpc, onFlush, wrfire,
                                  wrseen>>
              ELSE IF Len(writeBuf[p]) >= max_writebuf_size
                THEN /\ wrpc' = [wrpc EXCEPT ![p] = "blocked"]
                     /\ wrfire' = [wrfire EXCEPT ![p] = FireTime(writeDeadline[p])]
                     /\ wrseen' = [wrseen EXCEPT ![p] = Transmitted(p)]
                     /\ wrwhy' = [wrwhy EXCEPT ![p] = TimerKind(writeDeadline[p])]
                     /\ UNCHANGED <<writeBuf, accepted, wrres, onFlush>>
                ELSE /\ WriteToBuf(p, n)
                     /\ wrwhy' = [wrwhy EXCEPT ![p] = "buffer"]
                     /\ UNCHANGED <<wrpc, wrfire, wrseen>>
  /\ UNCHANGED <<RState, WState, f_read_idx, f_write_idx, f_ack_idx, wack,
                 readBuf, onAck, onWrite, onRead, onStreamClose, envVars,
                 workerVars, rdpc, rdlen, rdres, clpc, readOut, appended,
                 sent, acks>>
  /\ UNCHANGED <<timeVars, rdAux, cl2pc>>
  /\ UNCHANGED <<sizeVars, lockVars>>

\* 319-326: the writer has transmitted a frame; the bytes go in
WriteWake(p) ==
  /\ wrpc[p] = "blocked"
  /\ onWrite[p]
  /\ onWrite' = [onWrite EXCEPT ![p] = FALSE]
  /\ WriteToBuf(p, wrlen[p])
  /\ wrpc' = [wrpc EXCEPT ![p] = "idle"]
  /\ wrwhy' = [wrwhy EXCEPT ![p] = "buffer"]
  /\ UNCHANGED <<RState, WState, f_read_idx, f_write_idx, f_ack_idx, wack,
                 readBuf, onAck, onRead, onStreamClose, envVars, workerVars,
                 rdpc, rdlen, rdres, wrlen, clpc, readOut, appended, sent,
                 acks>>
  /\ wrfire' = [wrfire EXCEPT ![p] = 0]
  /\ wrseen' = [wrseen EXCEPT ![p] = 0]
  /\ UNCHANGED <<timeVars, rdAux, cl2pc>>
  /\ UNCHANGED <<sizeVars, lockVars>>

\* 317-318: the blocked Write takes the signal of the close channel
WriteTakesClose(p) ==
  /\ wrpc[p] = "blocked"
  /\ onStreamClose[p]
  /\ onStreamClose' = [onStreamClose EXCEPT ![p] = FALSE]
  /\ wrpc' = [wrpc EXCEPT ![p] = "idle"]
  /\ wrres' = [wrres EXCEPT ![p] = "EOF"]
  /\ wrwhy' = [wrwhy EXCEPT ![p] = "closed"]
  /\ UNCHANGED <<streamVars, onFlush, onAck, onRead, onWrite, envVars,
                 workerVars, rdpc, rdlen, rdres, wrlen, clpc, histVars>>
  /\ wrfire' = [wrfire EXCEPT ![p] = 0]
  /\ wrseen' = [wrseen EXCEPT ![p] = 0]
  /\ UNCHANGED <<timeVars, rdAux, cl2pc>>
  /\ UNCHANGED <<sizeVars, lockVars>>

\* 313-314: the timer of the blocked Write fires
WriteTimeout(p) ==
  /\ wrpc[p] = "blocked"
  /\ now >= wrfire[p]
  /\ wrpc' = [wrpc EXCEPT ![p] = "idle"]
  /\ wrres' = [wrres EXCEPT ![p] = WriteTimeoutErr]
  /\ wrwhy' = [wrwhy EXCEPT ![p] = TimerFired(@)]
  /\ UNCHANGED <<streamVars, chanVars, envVars, workerVars, rdpc, rdlen,
                 rdres, wrlen, clpc, histVars>>
  /\ wrfire' = [wrfire EXCEPT ![p] = 0]
  /\ wrseen' = [wrseen EXCEPT ![p] = 0]
  /\ UNCHANGED <<timeVars, rdAux, cl2pc>>
  /\ UNCHANGED <<sizeVars, lockVars>>

\* 315-316: the stream is halted
WriteHalted(p) ==
  /\ wrpc[p] = "blocked"
  /\ halted[p]
  /\ wrpc' = [wrpc EXCEPT ![p] = "idle"]
  /\ wrres' = [wrres EXCEPT ![p] = "EOF"]
  /\ wrwhy' = [wrwhy EXCEPT ![p] = "halt"]
  /\ UNCHANGED <<streamVars, chanVars, envVars, workerVars, rdpc, rdlen,
                 rdres, wrlen, clpc, histVars>>
  /\ wrfire' = [wrfire EXCEPT ![p] = 0]
  /\ wrseen' = [wrseen EXCEPT ![p] = 0]
  /\ UNCHANGED <<timeVars, rdAux, cl2pc>>
  /\ UNCHANGED <<sizeVars, lockVars>>

\* 313-316: the timeout fires, or the stream is halted
WriteGiveUp(p) == WriteTimeout(p) \/ WriteHalted(p)

\* -------------------------------------------------------- Close (330-341)
\* (a Close that moves WState to Closing whatever it was)
CloseWStateAlways(cur) == StreamClosing

\* 333-334
CloseWState(cur) == IF cur = StreamOpen THEN StreamClosing ELSE cur

\* 331-335 and 339-340: Close waits only if it moved WState from Open
CloseCall(p) ==
  /\ p \in scen.closers
  /\ clpc[p] = "idle"
  /\ RState' = [RState EXCEPT ![p] = StreamClosed]
  /\ WState' = [WState EXCEPT ![p] = CloseWState(@)]
  /\ clpc' = [clpc EXCEPT ![p] = IF WState[p] = StreamOpen THEN "blocked" ELSE "done"]
  /\ UNCHANGED <<f_read_idx, f_write_idx, f_ack_idx, wack, writeBuf, readBuf,
                 chanVars, envVars, workerVars, rdpc, rdlen, rdres, wrpc,
                 wrlen, wrres, histVars>>
  /\ UNCHANGED newVars

\* 336-337: the writer has finalized
CloseReturn(p) ==
  /\ clpc[p] = "blocked"
  /\ onStreamClose[p]
  /\ onStreamClose' = [onStreamClose EXCEPT ![p] = FALSE]
  /\ clpc' = [clpc EXCEPT ![p] = "returned"]
  /\ UNCHANGED <<streamVars, onFlush, onAck, onWrite, onRead, envVars,
                 workerVars, rdpc, rdlen, rdres, wrpc, wrlen, wrres, histVars>>
  /\ UNCHANGED newVars

\* A further Close, by another thread of the application, after an earlier
\* Close was called: 331-340 once more.
CloseAgain(p) ==
  /\ p \in scen.closers
  /\ clpc[p] # "idle"
  /\ cl2pc[p] = "idle"
  /\ RState' = [RState EXCEPT ![p] = StreamClosed]
  /\ WState' = [WState EXCEPT ![p] = CloseWState(@)]
  /\ cl2pc' = [cl2pc EXCEPT ![p] = IF WState[p] = StreamOpen THEN "blocked" ELSE "done"]
  /\ UNCHANGED <<f_read_idx, f_write_idx, f_ack_idx, wack, writeBuf, readBuf,
                 chanVars, envVars, workerVars, callVars, histVars>>
  /\ UNCHANGED <<timeVars, rdAux, wrAux>>
  /\ UNCHANGED <<sizeVars, lockVars>>

\* ------------------------------------------- deadline setters (374-405)
\* 375-378, 387-389, 400-402: SetDeadline, SetReadDeadline or
\* SetWriteDeadline stores the time t it is given
SetDeadlineStore(p) ==
  /\ sdpc[p] = "idle"
  /\ \E t \in 0..MaxTime, which \in {"both", "read", "write"} :
       /\ readDeadline' = [readDeadline EXCEPT ![p] =
                             IF which = "write" THEN @ ELSE t]
       /\ writeDeadline' = [writeDeadline EXCEPT ![p] =
                              IF which = "read" THEN @ ELSE t]
  /\ sdpc' = [sdpc EXCEPT ![p] = "send"]
  /\ UNCHANGED <<streamVars, chanVars, envVars, workerVars, callVars,
                 histVars, now, onUpdateDeadline, rdAux, wrAux, cl2pc>>
  /\ UNCHANGED <<sizeVars, lockVars>>

\* 379, 390, 403: the send on onUpdateDeadline, which blocks while the slot
\* is full
SetDeadlineSend(p) ==
  /\ sdpc[p] = "send"
  /\ ~onUpdateDeadline[p]
  /\ onUpdateDeadline' = [onUpdateDeadline EXCEPT ![p] = TRUE]
  /\ sdpc' = [sdpc EXCEPT ![p] = "idle"]
  /\ UNCHANGED <<streamVars, chanVars, envVars, workerVars, callVars,
                 histVars, now, readDeadline, writeDeadline, rdAux, wrAux,
                 cl2pc>>
  /\ UNCHANGED <<sizeVars, lockVars>>

\* ----------------------------------------------------------- environment
\* the clock advances
Tick ==
  /\ now < MaxTime
  /\ now' = now + 1
  /\ UNCHANGED <<streamVars, chanVars, envVars, workerVars, callVars,
                 histVars, readDeadline, writeDeadline, onUpdateDeadline,
                 sdpc, rdAux, wrAux, cl2pc>>
  /\ UNCHANGED <<sizeVars, lockVars>>

\* Halt closes the halt channel of the stream
Halt(p) ==
  /\ ~halted[p]
  /\ halted' = [halted EXCEPT ![p] = TRUE]
  /\ UNCHANGED <<streamVars, chanVars, tq, store, lost, scen, workerVars,
                 callVars, histVars, newVars>>

\* ------------------------------------- length of a ciphertext (525-558)
\* 27
nonceSize == 24

\* 763-764: len(ciphertext) - len(plaintext) of secretbox.Seal
secretboxOverhead == 16

\* cbor.Marshal: the bytes of the head of an item whose argument is n
HeadLen(n) ==
  IF n < 24 THEN 1
  ELSE IF n < 256 THEN 2
  ELSE IF n < 65536 THEN 3
  ELSE 5

\* cbor.Marshal of a Frame (50-56): the text strings "Type", "Ack" and
\* "Payload", the keys of the map; the unexported id is left out
FrameKeysLen == (1 + 4) + (1 + 3) + (1 + 7)

\* 526: len(serialized) of a frame with this Ack and len(Payload): the head
\* of a map of three pairs, the keys, Type (0, 1 or 2: one byte), Ack, and
\* the byte string Payload (a nil Payload takes one byte as well)
SerializedLen(ack, len) ==
  1 + FrameKeysLen + 1 + HeadLen(ack) + HeadLen(len) + len

\* 757-758: len(cbor.Marshal(Frame{}))
cborFrameOverhead == SerializedLen(0, 0)

\* 765: the value init gives the variable FramePayloadSize of the code when
\* the values of the substrate have PayloadSize bytes
FramePayloadSizeInit ==
  PayloadSize - nonceSize - cborFrameOverhead - secretboxOverhead

\* 549-553: zero extension up to FramePayloadSize
PaddedLen(n) ==
  IF FramePayloadSizeInit - n > 0 THEN FramePayloadSizeInit ELSE n

\* 555-556: nonce, then the sealed serialized frame
CiphertextLen(ack, len) ==
  nonceSize + (PaddedLen(SerializedLen(ack, len)) + secretboxOverhead)

\* values of f_read_idx on either side of the steps of the CBOR head
AckValues == {0, 23, 24, 255, 256, 65535, 65536}

\* 525-558: txFrame hands the ciphertext of the frame to Put
TxFrameLen ==
  /\ ciphertextLen = 0
  /\ ciphertextLen' = CiphertextLen(frameAck, payloadLen)
  /\ UNCHANGED <<streamVars, chanVars, envVars, workerVars, callVars,
                 histVars, timeVars, rdAux, wrAux, cl2pc, frameAck,
                 payloadLen, lockVars>>

\* ----------------------------------------------------------------- system
Writer(p) ==
  \/ WriterExit(p) \/ WriterCheck(p) \/ WriterWait(p) \/ WriterAssemble(p)
  \/ WriterOblige(p) \/ WriterTxPut(p) \/ WriterTxDone(p)

Timer(p) == TimerExpire(p) \/ TimerTxPut(p) \/ TimerTxDone(p)

Reader(p) ==
  \/ ReaderExit(p) \/ ReaderProd(p) \/ ReaderGet(p) \/ ReaderRetry(p)
  \/ ReaderAppend(p)

Calls(p) ==
  \/ ReadCall(p) \/ ReadWake(p)
  \/ WriteCall(p) \/ WriteWake(p) \/ WriteTakesClose(p)
  \/ CloseCall(p) \/ CloseReturn(p)

\* Both peers with all their workers, in every scenario; no blocked call
\* waits long enough to time out.
Next ==
  \E p \in Peers : Writer(p) \/ Timer(p) \/ Reader(p) \/ Calls(p) \/ Lose(p)

Spec == Init /\ [][Next]_vars

\* The scenario "acks": no application calls Read, no Write finds the
\* buffer full, nothing is lost.
InitAcks == InitIn({ScenAcks})

CallsAcks(p) == WriteCall(p) \/ CloseCall(p) \/ CloseReturn(p)

NextAcks ==
  \E p \in Peers : Writer(p) \/ Timer(p) \/ Reader(p) \/ CallsAcks(p)

SpecAcks == InitAcks /\ [][NextAcks]_vars

\* The scenario "live" under fair scheduling: each worker that can take a
\* step eventually takes one, and a pending timer eventually expires.
\* Nobody closes and nothing halts, so no worker leaves its loop and no
\* frame is obliged by a teardown.
InitLive == InitIn({ScenLive})

WriterLive(p) ==
  \/ WriterCheck(p) \/ WriterWait(p) \/ WriterAssemble(p)
  \/ WriterTxPut(p) \/ WriterTxDone(p)

ReaderLive(p) ==
  ReaderProd(p) \/ ReaderGet(p) \/ ReaderRetry(p) \/ ReaderAppend(p)

CallsLive(p) == WriteCall(p)

NextLive ==
  \E p \in Peers :
    WriterLive(p) \/ Timer(p) \/ ReaderLive(p) \/ CallsLive(p) \/ Lose(p)

FairLive ==
  \A p \in Peers :
    /\ WF_vars(WriterLive(p))
    /\ WF_vars(ReaderLive(p))
    /\ WF_vars(Timer(p))

SpecLive == InitLive /\ [][NextLive]_vars /\ FairLive

\* The scenario "calls" under fair scheduling, with Halt: each worker that
\* can take a step eventually takes one, and a blocked call whose select has
\* a ready case eventually takes one.
InitCalls == InitIn({ScenCalls})

BlockedCalls(p) ==
  \/ ReadHalted(p)
  \/ WriteWake(p) \/ WriteTakesClose(p) \/ WriteHalted(p)
  \/ CloseReturn(p)

CallsHalt(p) ==
  ReadCall(p) \/ WriteCall(p) \/ CloseCall(p) \/ CloseAgain(p) \/ BlockedCalls(p)

NextHalt ==
  \E p \in Peers : Writer(p) \/ Reader(p) \/ CallsHalt(p) \/ Halt(p)

FairHalt ==
  \A p \in Peers :
    /\ WF_vars(Writer(p))
    /\ WF_vars(Reader(p))
    /\ WF_vars(BlockedCalls(p))

SpecHalt == InitCalls /\ [][NextHalt]_vars /\ FairHalt

\* The scenario "calls" with a clock and deadlines: the application of A
\* sets deadlines while it reads, writes and closes, and a blocked call
\* whose timer has fired returns.  Nothing halts, and B has not started.
Setters(p) == p = "A" /\ (SetDeadlineStore(p) \/ SetDeadlineSend(p))

CallsDeadline(p) ==
  \/ ReadCall(p) \/ ReadTimeout(p)
  \/ WriteCall(p) \/ WriteWake(p) \/ WriteTakesClose(p) \/ WriteTimeout(p)
  \/ CloseCall(p) \/ CloseReturn(p)

\* B has published nothing, so the Get of A's reader finds nothing.
ReaderAlone(p) == ReaderExit(p) \/ ReaderProd(p) \/ ReaderRetry(p)

NextDeadline ==
  \/ \E p \in {"A"} :
       Writer(p) \/ ReaderAlone(p) \/ CallsDeadline(p) \/ Setters(p)
  \/ Tick

SpecDeadline == InitCalls /\ [][NextDeadline]_vars

\* ------------------------------------------------------------ properties
IsPrefix(s, t) == Len(s) <= Len(t) /\ \A i \in 1..Len(s) : s[i] = t[i]
InSeq(x, s) == \E i \in 1..Len(s) : s[i] = x

\* The scenario "window" under fair scheduling: each worker that can take a
\* step eventually takes one, and a blocked call whose select has a ready
\* case eventually takes one.  Nothing halts.
InitWindow == InitIn({ScenWindow})

WokenCalls(p) == WriteWake(p) \/ WriteTakesClose(p) \/ CloseReturn(p)

CallsWindow(p) == WriteCall(p) \/ CloseCall(p) \/ WokenCalls(p)

NextWindow ==
  \E p \in Peers : Writer(p) \/ Reader(p) \/ CallsWindow(p)

FairWindow ==
  \A p \in Peers :
    /\ WF_vars(Writer(p))
    /\ WF_vars(Reader(p))
    /\ WF_vars(WokenCalls(p))

SpecWindow == InitWindow /\ [][NextWindow]_vars /\ FairWindow

\* The scenario "fail" with failures of the substrate: a Put may fail and a
\* stored value may come back damaged.
WriterFail(p) == Writer(p) \/ WriterTxPutFail(p)

TimerFail(p) == Timer(p) \/ TimerTxPutFail(p)

ReaderFail(p) == Reader(p) \/ ReaderGetDamaged(p)

NextFail ==
  \E p \in Peers :
    WriterFail(p) \/ TimerFail(p) \/ ReaderFail(p) \/ CallsAcks(p) \/ Damage(p)

InitFail == InitIn({ScenFail})

SpecFail == InitFail /\ [][NextFail]_vars

\* The frames the writer can assemble (466-481): any Ack, and a Payload of
\* 0 to FramePayloadSize bytes.  txFrame computes the length of what is Put.
InitSize ==
  /\ InitStream({ScenClose})
  /\ frameAck \in AckValues
  /\ payloadLen \in 0..FramePayloadSizeInit
  /\ ciphertextLen = 0
  /\ InitLocks

NextSize == TxFrameLen

SpecSize == InitSize /\ [][NextSize]_vars

\* the bytes the Write calls of p have accepted, in order
Accepted(p) == [i \in 1..accepted[p] |-> i]

EndFrames(p) == {f \in sent[p] : f.Type = StreamEnd}

\* C1: the bytes B's Read calls have returned, concatenated, are a prefix of
\* the bytes A's Write calls have accepted (and likewise from B to A).
C1_ReadIsPrefixOfWritten ==
  \A p \in Peers : IsPrefix(readOut[Other(p)], Accepted(p))

\* C1 witness: a value was lost, a frame was published again, and B has read
\* both bytes A wrote.
C1_Witness ==
  /\ lost = 1
  /\ f_write_idx["A"] = 3
  /\ readOut["B"] = <<1, 2>>

\* C4: the reader appends frame indices 0, 1, 2, ... in this order, each
\* exactly once.
C4_AppendInIndexOrder ==
  \A p \in Peers : \A i \in 1..Len(appended[p]) : appended[p][i] = i - 1

\* C4 witness: B's reader has appended two frames although a value was lost
\* and a frame was published again.
C4_Witness ==
  /\ lost = 1
  /\ f_write_idx["A"] = 3
  /\ Len(appended["B"]) = 2

\* C9: per direction at most one End frame is published, under one index,
\* and no published frame has a higher index than the End frame.
C9_OneEndAndLast ==
  \A p \in Peers :
    /\ Cardinality(EndFrames(p)) <= 1
    /\ \A e \in EndFrames(p) : \A f \in sent[p] : f.id <= e.id

\* C9 witness: A's End frame is published and the timer worker has since
\* published a frame again.
C9_Witness ==
  /\ EndFrames("A") # {}
  /\ tpc["A"] = "done"
  /\ tf["A"].Type # StreamEnd

\* C10: once a Close that moved WState from Open to Closing has returned,
\* both halves are Closed and the End frame of this direction has been Put.
C10_CloseReturnsAfterEnd ==
  \A p \in Peers :
    clpc[p] = "returned" =>
      /\ RState[p] = StreamClosed
      /\ WState[p] = StreamClosed
      /\ EndFrames(p) # {}

\* C10 witness: A's Close has returned after waiting for the writer, and
\* bytes were written before.
C10_Witness ==
  /\ clpc["A"] = "returned"
  /\ accepted["A"] > 0

\* C7: f_write_idx, f_read_idx and f_ack_idx never decrease in any step.
C7_CountersNeverDecrease ==
  [][\A p \in Peers :
       /\ f_write_idx'[p] >= f_write_idx[p]
       /\ f_read_idx'[p] >= f_read_idx[p]
       /\ f_ack_idx'[p] >= f_ack_idx[p]]_vars

\* C7 witness: the timer worker has passed a frame through txFrame whose Ack
\* is older than f_ack_idx.
C7_Witness ==
  /\ tpc["A"] = "done"
  /\ tf["A"].Ack < f_ack_idx["A"]

\* C8: f_ack_idx <= f_read_idx in every reachable state.
C8_AckIdxAtMostReadIdx ==
  \A p \in Peers : f_ack_idx[p] <= f_read_idx[p]

\* C8 witness: f_ack_idx has caught up with a non-zero f_read_idx and a
\* frame with an older Ack has then passed through txFrame.
C8_Witness ==
  /\ f_read_idx["A"] > 0
  /\ f_ack_idx["A"] = f_read_idx["A"]
  /\ tpc["A"] = "done"
  /\ tf["A"].Ack < f_ack_idx["A"]

\* B's reader has appended the End frame of A
EndSeenBy(p) == \E e \in EndFrames(Other(p)) : InSeq(e.id, appended[p])

\* C2: once A's End frame has been processed by B's reader and B's Read has
\* reported EOF, the bytes B's Read calls returned are exactly the bytes A's
\* Write calls accepted.
C2_ReadAllBeforeEOF ==
  \A p \in Peers :
    (EndSeenBy(p) /\ rdres[p] = "EOF") => readOut[p] = Accepted(Other(p))

\* C5: the outstanding set wack never holds more than stream_window_size
\* indices.
C5_WindowBound ==
  \A p \in Peers : Cardinality(wack[p]) <= stream_window_size

\* C6: the Ack of a frame the writer has assembled names a frame index the
\* local reader has received (stated for a reader that has received a frame).
C6_AckNamesReceivedFrame ==
  \A p \in Peers :
    (wpc[p] = "put" /\ appended[p] # <<>>) => InSeq(wf[p].Ack, appended[p])

\* every frame index A has published has been appended by B's reader
AllFetched == \A f \in sent["A"] : InSeq(f.id, appended["B"])

\* the bound on f_write_idx has stopped the timers of A
TimersStopped == f_write_idx["A"] >= scen.retx["A"]

\* C3: under fair scheduling, when the substrate loses values finitely often
\* and the timers of A are never stopped, B's reader eventually has fetched
\* every frame index A has published, and this stays so.
C3_LostFrameRecovered == <>TimersStopped \/ <>[]AllFetched

\* C11: under fair scheduling, a Close that waits for the writer on a stream
\* that is not halted eventually returns.
C11_CloseTerminates ==
  \A p \in Peers :
    (clpc[p] = "blocked" /\ ~halted[p]) ~> (clpc[p] = "returned" \/ halted[p])

\* C17: after the halt signal, no Read, Write or Close stays blocked forever.
C17_HaltUnblocksCalls ==
  \A p \in Peers :
    halted[p] ~> (rdpc[p] # "blocked" /\ wrpc[p] # "blocked" /\ clpc[p] # "blocked")

\* C12: a Close made after an earlier Close returns without waiting and
\* leaves RState, WState, the counters, the buffers and the frames published
\* as they were; no second End frame is ever published.
C12_CloseIdempotent ==
  /\ [][\A p \in Peers :
          (cl2pc[p] = "idle" /\ cl2pc'[p] # "idle") =>
            /\ cl2pc'[p] = "done"
            /\ RState'[p] = RState[p] /\ WState'[p] = WState[p]
            /\ f_read_idx'[p] = f_read_idx[p]
            /\ f_write_idx'[p] = f_write_idx[p]
            /\ f_ack_idx'[p] = f_ack_idx[p]
            /\ readBuf'[p] = readBuf[p] /\ writeBuf'[p] = writeBuf[p]
            /\ sent'[p] = sent[p]]_vars
  /\ [](\A p \in Peers : Cardinality(EndFrames(p)) <= 1)

\* C12 witness: the first Close of A has returned, the End frame is
\* published, and a further Close has returned too.
C12_Witness ==
  /\ clpc["A"] = "returned"
  /\ cl2pc["A"] = "done"
  /\ EndFrames("A") # {}

\* C13: on a stream whose RState and WState are both Closed, a Read or a
\* Write that starts returns EOF, whatever the deadlines are, and changes no
\* buffer and no counter.
C13_ClosedGivesEOF ==
  [][\A p \in Peers :
       (RState[p] = StreamClosed /\ WState[p] = StreamClosed) =>
         /\ (rdpc[p] = "idle" /\ (rdres'[p] # rdres[p] \/ rdwhy'[p] # rdwhy[p])) =>
              /\ rdres'[p] = "EOF"
              /\ readBuf'[p] = readBuf[p]
              /\ f_read_idx'[p] = f_read_idx[p]
         /\ (wrpc[p] = "idle" /\ (wrres'[p] # wrres[p] \/ wrwhy'[p] # wrwhy[p])) =>
              /\ wrres'[p] = "EOF"
              /\ writeBuf'[p] = writeBuf[p]
              /\ f_write_idx'[p] = f_write_idx[p]]_vars

\* C14: a Read or Write that fails because its deadline has elapsed, at the
\* start of the call or while it was blocked, returns the deadline-exceeded
\* error.
C14_DeadlineGivesDeadlineError ==
  \A p \in Peers :
    /\ rdwhy[p] \in {"deadline", "deadline-timer"} => rdres[p] = "deadline"
    /\ wrwhy[p] \in {"deadline", "deadline-timer"} => wrres[p] = "deadline"

\* C15: a Read or Write that blocks while its deadline is the zero time, and
\* whose deadline is still the zero time when it returns, does not return
\* because a timer fired.
C15_ZeroDeadlineNeverTimesOut ==
  [][\A p \in Peers :
       /\ (rdpc[p] = "blocked" /\ rdwhy[p] = "wait-default"
             /\ readDeadline[p] = ZeroTime /\ rdpc'[p] = "idle")
            => rdwhy'[p] \notin {"deadline-timer", "default-timer"}
       /\ (wrpc[p] = "blocked" /\ wrwhy[p] = "wait-default"
             /\ writeDeadline[p] = ZeroTime /\ wrpc'[p] = "idle")
            => wrwhy'[p] \notin {"deadline-timer", "default-timer"}]_vars

\* C16: a blocked Read or Write is governed by the deadline in force, so when
\* it returns because a timer fired while a deadline is set, that deadline
\* has been reached.
C16_BlockedCallFollowsNewDeadline ==
  [][\A p \in Peers :
       /\ (rdpc[p] = "blocked" /\ rdpc'[p] = "idle"
             /\ rdwhy'[p] \in {"deadline-timer", "default-timer"}
             /\ readDeadline[p] # ZeroTime)
            => now >= readDeadline[p]
       /\ (wrpc[p] = "blocked" /\ wrpc'[p] = "idle"
             /\ wrwhy'[p] \in {"deadline-timer", "default-timer"}
             /\ writeDeadline[p] # ZeroTime)
            => now >= writeDeadline[p]]_vars

\* C18: a Write that blocked on the full writeBuf appends and returns success
\* only after the writer has transmitted a frame since that Write started
\* blocking, and then it has appended all of its bytes.
C18_BlockedWriteWaitsForFrame ==
  [][\A p \in Peers :
       (wrpc[p] = "blocked" /\ wrpc'[p] = "idle" /\ wrwhy'[p] = "buffer") =>
         /\ Transmitted(p) > wrseen[p]
         /\ accepted'[p] = accepted[p] + wrlen[p]
         /\ Len(writeBuf'[p]) = Len(writeBuf[p]) + wrlen[p]]_vars

\* C19: a frame published again goes under the index of its first
\* publication with the same Type, Ack and Payload, so no two published
\* frames share an index, and the bytes the receiver holds or has returned
\* stay a prefix of the bytes accepted.
C19_RetransmissionIdempotent ==
  /\ [][\A p \in Peers :
          (tpc[p] = "put" /\ tpc'[p] = "done") =>
            (tf[p] \in sent[p] /\ sent'[p] = sent[p])]_vars
  /\ [](\A p \in Peers :
          /\ \A f, g \in sent[p] : f.id = g.id => f = g
          /\ IsPrefix(readOut[p] \o readBuf[p], Accepted(Other(p))))

\* C19 witness: A's timer worker has published frame 0 again with its Ack
\* of 0 after A's reader has received a frame, and B holds A's byte.
C19_Witness ==
  /\ tpc["A"] = "done"
  /\ tf["A"].id = 0
  /\ tf["A"].Ack = 0
  /\ f_read_idx["A"] > 0
  /\ readBuf["B"] = <<1>>

\* C20: every ciphertext txFrame hands to Put has the length PayloadSize of a
\* value of the substrate, for every Ack and every payload of 0 to
\* FramePayloadSize bytes.
C20_PutLengthIsPayloadSize ==
  ciphertextLen # 0 => ciphertextLen = PayloadSize

\* C21: a Put that fails while the writer publishes a new frame leaves the
\* stream running: the writer does not panic.
C21_PutFailureRecovered ==
  \A p \in Peers : wpc[p] # "panic"

\* C22: a value fetched for f_read_idx that does not open or unmarshal is
\* fatal: it is never taken as a frame, and from the panic of readFrame on
\* readBuf, f_read_idx, the outstanding set and the frames appended of that
\* stream stay as they are.
C22_DamagedFrameIsFatal ==
  /\ [][\A p \in Peers :
          rpc'[p] = "panic" =>
            /\ readBuf'[p] = readBuf[p]
            /\ f_read_idx'[p] = f_read_idx[p]
            /\ wack'[p] = wack[p]
            /\ appended'[p] = appended[p]]_vars
  /\ [](\A p \in Peers : rf[p].Type # "Damaged")

\* C22 witness: B's reader has panicked on the damaged frame 0 of A while A
\* has published a later frame, which B never fetches.
C22_Witness ==
  /\ rpc["B"] = "panic"
  /\ f_read_idx["B"] = 0
  /\ \E f \in sent["A"] : f.id > 0

\* C23: every index below f_write_idx has been Put at least once.
C23_PublishedIndicesContiguous ==
  \A p \in Peers :
    \A i \in 0..(f_write_idx[p] - 1) : \E f \in sent[p] : f.id = i

\* C24: f_write_idx changes only when the writer has published a new frame,
\* and then by one; f_read_idx changes only in a step of the reader.
C24_OnlyWriterAdvancesWriteIdx ==
  [][\A p \in Peers :
       /\ f_write_idx'[p] # f_write_idx[p] =>
            /\ f_write_idx'[p] = f_write_idx[p] + 1
            /\ wpc[p] = "done" /\ wpc'[p] = "top"
       /\ f_read_idx'[p] # f_read_idx[p] =>
            (rpc[p] = "append" /\ rpc'[p] = "top")]_vars

\* the frame indices p's reader has appended
AppendedBy(p) == {appended[p][i] : i \in 1..Len(appended[p])}

\* C25: an index leaves the outstanding set of a sender by an
\* acknowledgement only if the peer's reader has fetched and appended the
\* frame of that index.
C25_AckedOnlyIfReceived ==
  \A p \in Peers : acks[p] \subseteq AppendedBy(Other(p))

\* C26: an index that an acknowledgement has removed from the outstanding
\* set is never in the outstanding set again (stated for the indices whose
\* frame the peer's reader has appended, so that the acknowledgement is a
\* sound one).
C26_AckedNeverOutstandingAgain ==
  \A p \in Peers : (acks[p] \cap AppendedBy(Other(p))) \cap wack[p] = {}

\* index i of p has a pending timer entry, or the timer worker is publishing
\* it again just now
Scheduled(p, i) ==
  \/ \E f \in tq[p] : f.id = i
  \/ tpc[p] \in {"put", "done"} /\ tf[p].id = i

\* C27: an expired entry whose index is no longer outstanding is dropped
\* without a Put and without a change of the stream; an index that is
\* outstanding stays scheduled for a later re-publication, also after a
\* re-publication whose Put failed.
C27_OutstandingStaysScheduled ==
  /\ [][\A p \in Peers :
          (tpc[p] = "idle" /\ tpc'[p] = "idle" /\ tq'[p] # tq[p]
             /\ tq'[p] \subseteq tq[p]) =>
            (sent' = sent /\ store' = store /\ streamVars' = streamVars)]_vars
  /\ [](\A p \in Peers :
          tpc[p] # "dead" => \A i \in wack[p] : Scheduled(p, i))

\* C28: in every reachable state, WState = Closed implies that the End frame
\* of this direction has been Put.
C28_ClosedOnlyAfterEndPut ==
  \A p \in Peers : WState[p] = StreamClosed => EndFrames(p) # {}

\* C29: under fair scheduling, when the read half of a stream that is not
\* halted is Closed although its application has not called Close (the
\* reader has processed the End frame of the peer), the writer eventually
\* publishes its own End frame and WState becomes Closed.
C29_PeerEndClosesWriteHalf ==
  \A p \in Peers :
    (RState[p] = StreamClosed /\ clpc[p] = "idle" /\ ~halted[p])
      ~> (WState[p] = StreamClosed \/ clpc[p] # "idle" \/ halted[p])

\* C30: under fair scheduling, whenever f_read_idx - f_ack_idx >= W while
\* the write half is not Closed, the writer eventually has published a frame
\* whose Ack f_ack_idx has taken, and fewer than W frames are unacknowledged.
C30_WindowFullGetsAcked ==
  \A p \in Peers :
    (USub(f_read_idx[p], f_ack_idx[p]) >= stream_window_size
       /\ WState[p] # StreamClosed)
      ~> (/\ USub(f_read_idx[p], f_ack_idx[p]) < stream_window_size
          /\ \E f \in sent[p] : f.Ack = f_ack_idx[p])

\* C30 witness: B has received a window of frames, its writer waited with an
\* empty writeBuf, and it has published a frame with Ack = f_read_idx.
C30_Witness ==
  /\ f_read_idx["B"] = stream_window_size
  /\ f_ack_idx["B"] = stream_window_size
  /\ accepted["B"] = 0
  /\ \E f \in sent["B"] : f.Ack = stream_window_size /\ f.Payload = <<>>

\* C31: the writer assembles the End frame only while writeBuf is empty, the
\* End frame carries no payload, and every frame that carries payload has a
\* lower index than the End frame of its direction.
C31_EndFrameCarriesNoPayload ==
  /\ [][\A p \in Peers :
          (wf'[p] # wf[p] /\ wf'[p].Type = StreamEnd) => writeBuf[p] = <<>>]_vars
  /\ [](\A p \in Peers : \A e \in EndFrames(p) :
          /\ e.Payload = <<>>
          /\ \A f \in sent[p] : f.Payload # <<>> => f.id < e.id)

\* C31 witness: A has published a frame with payload and then its End frame.
C31_Witness ==
  /\ \E f \in sent["A"] : f.Payload # <<>>
  /\ EndFrames("A") # {}
  /\ wpc["A"] = "exit"

\* C32: while WState is Closing or Closed no Write appends bytes to writeBuf
\* or is counted as accepted.
C32_NoAppendAfterClose ==
  [][\A p \in Peers :
       WState[p] \in {StreamClosing, StreamClosed} =>
         /\ accepted'[p] = accepted[p]
         /\ Len(writeBuf'[p]) <= Len(writeBuf[p])]_vars

\* C33: no sender of a signal ever waits for a free slot: a deadline setter
\* that has stored its deadline is never held at its send on
\* onUpdateDeadline, and the writer is never held at its send on
\* onStreamClose.
C33_SendsNeverBlock ==
  \A p \in Peers :
    /\ ~(sdpc[p] = "send" /\ onUpdateDeadline[p])
    /\ ~(wpc[p] = "top" /\ ~halted[p] /\ WriterFinished(p) /\ onStreamClose[p])

\* C34: a Read that waited on an empty readBuf returns EOF only when a half
\* is Closed, the stream is halted, or its timer fired.
C34_EofOnlyOnCloseHaltTimeout ==
  [][\A p \in Peers :
       (rdpc[p] = "blocked" /\ rdpc'[p] = "idle" /\ rdres'[p] = "EOF") =>
         \/ rdwhy'[p] \in {"halt", "deadline-timer", "default-timer"}
         \/ RState[p] = StreamClosed
         \/ WState[p] = StreamClosed]_vars

\* both halves Closed, reader and writer have returned
Terminated(p) ==
  /\ RState[p] = StreamClosed
  /\ WState[p] = StreamClosed
  /\ rpc[p] = "exit"
  /\ wpc[p] = "exit"

\* C35: once both halves are Closed and both workers have returned, no
\* retransmission is started and no frame is Put for that peer.
C35_NoPutAfterTermination ==
  [][\A p \in Peers :
       Terminated(p) =>
         /\ ~(tpc[p] = "idle" /\ tpc'[p] = "put")
         /\ ~(tpc[p] = "put" /\ tpc'[p] = "done")]_vars

\* a Close call of p executes 331-335 in this step
CloseActs(p) == clpc'[p] # clpc[p] \/ cl2pc'[p] # cl2pc[p]

\* C36: each half only moves forward. WState goes from Open to Closing only
\* in a Close call and from Open or Closing to Closed only in the writer's
\* teardown; RState goes from Open to Closed only in a Close call or when the
\* reader appends the peer's End frame, and is never Closing; no half ever
\* leaves Closed and WState never returns to Open.
C36_HalvesOnlyMoveForward ==
  [][\A p \in Peers :
       /\ RState'[p] \in {StreamOpen, StreamClosed}
       /\ RState[p] = StreamClosed => RState'[p] = StreamClosed
       /\ (RState[p] = StreamOpen /\ RState'[p] = StreamClosed) =>
            \/ CloseActs(p)
            \/ rpc[p] = "append" /\ rf[p].Type = StreamEnd
       /\ WState[p] = StreamClosed => WState'[p] = StreamClosed
       /\ WState[p] = StreamClosing => WState'[p] # StreamOpen
       /\ (WState[p] = StreamOpen /\ WState'[p] = StreamClosing) => CloseActs(p)
       /\ (WState[p] # StreamClosed /\ WState'[p] = StreamClosed) =>
            (wpc[p] = "top" /\ wpc'[p] = "put" /\ wf'[p].Type = StreamEnd)]_vars

\* C36 witness: A went through Closing to Closed after its Close; B, which
\* never called Close, had both halves closed by A's End frame.
C36_Witness ==
  /\ clpc["A"] = "returned" /\ WState["A"] = StreamClosed
  /\ clpc["B"] = "idle"
  /\ RState["B"] = StreamClosed /\ WState["B"] = StreamClosed

\* C37: whenever the write half is Closing or Closed, the read half is Closed.
C37_WriteClosedImpliesReadClosed ==
  \A p \in Peers :
    WState[p] \in {StreamClosing, StreamClosed} => RState[p] = StreamClosed

\* C37 witness: A's Close has set Closing while writeBuf still holds bytes,
\* so the writer has not torn down yet.
C37_Witness ==
  /\ WState["A"] = StreamClosing
  /\ RState["A"] = StreamClosed
  /\ clpc["A"] = "blocked"
  /\ writeBuf["A"] # <<>>

\* C38: no two different frames are ever published under the same index,
\* also when a retransmission raises f_write_idx between the writer's index
\* assignment (464) and the writer's own increment (562-564).
C38_OneFramePerIndex ==
  \A p \in Peers : \A f, g \in sent[p] : f.id = g.id => f = g

\* C38 witness: the writer of A has assigned an index to a frame and has not
\* incremented yet, and a retransmission has raised f_write_idx past it.
C38_Witness ==
  /\ wpc["A"] \in {"put", "done"}
  /\ wf["A"].id < f_write_idx["A"]
  /\ sent["A"] # {}

\* ------------------------------------------ the two mutexes: lock order
\* Every code path of stream.go between taking a mutex and the next point
\* where the thread holds none, as the sequence of its mutex, channel and
\* substrate operations. "s" is the stream mutex, "r" the retransmission
\* mutex. Which path a thread takes depends on stream state; here a thread
\* may take any of its paths at any time.
Op(k, m) == [k |-> k, m |-> m]
LockOp(m) == Op("Lock", m)
UnlockOp(m) == Op("Unlock", m)
\* a receive, a select without default, a plain send or a substrate call:
\* it may take any length of time
Block(what) == Op("Block", what)
\* a select/default send (638-657, 703-706): it never waits
Signal(ch) == Op("Signal", ch)
\* the plain send on onStreamClose (420) and the receives from it (317, 336)
Send(ch) == Op("Send", ch)
Recv(ch) == Op("Recv", ch)
\* the thread returns and never runs again
Return == Op("Return", "")

\* 531-564
txFramePath ==
  <<LockOp("s"), UnlockOp("s"), Block("Put"), LockOp("s"), UnlockOp("s")>>

\* 575-577
txEnqueuePath == <<LockOp("r"), UnlockOp("r")>>

\* (a Push that keeps the retransmission mutex while txFrame runs)
PushPathHolding(stillWaiting) ==
  IF stillWaiting
    THEN <<LockOp("r")>> \o txFramePath \o <<UnlockOp("r")>> \o txEnqueuePath
    ELSE <<LockOp("r"), UnlockOp("r")>>

\* 173-180
PushPath(stillWaiting) ==
  <<LockOp("r"), UnlockOp("r")>> \o
  (IF stillWaiting THEN txFramePath \o txEnqueuePath ELSE <<>>)

\* 417-422
WriterClosedPath ==
  <<LockOp("s"), Send("onStreamClose"), UnlockOp("s"), Return>>

\* 417, 440-457, 476, 482-489
WriterPath(wait, send) ==
  <<LockOp("s")>> \o
  (IF wait
     THEN <<LockOp("r"), UnlockOp("s"), UnlockOp("r"), Block("select"),
            LockOp("s")>>
     ELSE <<>>) \o
  <<UnlockOp("s")>> \o
  (IF send THEN txFramePath \o txEnqueuePath \o <<Signal("onWrite")>>
           ELSE <<>>)

\* 417, 440-454: the select returns on HaltCh
WriterHaltPath ==
  <<LockOp("s"), LockOp("r"), UnlockOp("s"), UnlockOp("r"), Block("select"),
    Return>>

\* 192-233, readFrame 660-663, processAck 692-706
ReaderPath(closed, got) ==
  IF closed
    THEN <<LockOp("s"), Signal("onFlush"), UnlockOp("s"), Return>>
    ELSE <<LockOp("s"), Signal("onFlush"), UnlockOp("s"),
           LockOp("s"), UnlockOp("s"), Block("Get")>> \o
         (IF got
            THEN <<LockOp("r"), UnlockOp("r"), Signal("onAck"),
                   LockOp("s"), UnlockOp("s"), Signal("onRead")>>
            ELSE <<>>)

\* 240-274
ReadPath(wait) ==
  <<LockOp("s")>> \o
  (IF wait THEN <<UnlockOp("s"), Block("select"), LockOp("s")>> ELSE <<>>) \o
  <<UnlockOp("s")>>

\* 287-325
WritePath(wait, closeSeen) ==
  <<LockOp("s")>> \o
  (IF wait
     THEN <<UnlockOp("s")>> \o
          (IF closeSeen THEN <<Recv("onStreamClose")>>
                        ELSE <<Block("select"), LockOp("s"), UnlockOp("s"),
                               Signal("onFlush")>>)
     ELSE <<UnlockOp("s"), Signal("onFlush")>>)

\* 331-340
ClosePath(wasOpen) ==
  <<LockOp("s"), UnlockOp("s")>> \o
  (IF wasOpen THEN <<Recv("onStreamClose")>> ELSE <<>>)

\* 375-379, 387-390, 400-403
SetDeadlinePath == <<LockOp("s"), UnlockOp("s"), Block("onUpdateDeadline")>>

Paths(t) ==
  CASE t = "writer" ->
         {WriterClosedPath, WriterHaltPath} \cup
         {WriterPath(w, x) : w \in BOOLEAN, x \in BOOLEAN}
    [] t = "reader" -> {ReaderPath(c, g) : c \in BOOLEAN, g \in BOOLEAN}
    [] t = "timer" -> {PushPath(w) : w \in BOOLEAN}
    [] OTHER ->
         {ReadPath(w) : w \in BOOLEAN} \cup
         {WritePath(w, c) : w \in BOOLEAN, c \in BOOLEAN} \cup
         {ClosePath(o) : o \in BOOLEAN} \cup {SetDeadlinePath}

\* the operation the thread is about to execute
Cur(t) == IF lpc[t].pc = 0 THEN Op("Idle", "") ELSE lpc[t].path[lpc[t].pc]
Holder(m) == IF m = "s" THEN sMutex ELSE rMutex
Holds(t, m) == Holder(m) = t

Advance(t) ==
  lpc' = [lpc EXCEPT ![t] = IF @.pc = Len(@.path) THEN NoPath
                            ELSE [@ EXCEPT !.pc = @ + 1]]

lockRest == <<streamVars, envVars, workerVars, callVars, histVars, timeVars,
              rdAux, wrAux, cl2pc, sizeVars>>

\* the thread enters one of its paths
LockBegin(t) ==
  /\ lpc[t] = NoPath
  /\ \E path \in Paths(t) : lpc' = [lpc EXCEPT ![t] = [path |-> path, pc |-> 1]]
  /\ UNCHANGED <<sMutex, rMutex, chanVars, lockRest>>

\* Lock(): waits until the mutex is free; a sync.Mutex is not reentrant
LockAcquire(t) ==
  /\ Cur(t).k = "Lock"
  /\ Holder(Cur(t).m) = NoThread
  /\ IF Cur(t).m = "s" THEN sMutex' = t /\ UNCHANGED rMutex
                       ELSE rMutex' = t /\ UNCHANGED sMutex
  /\ Advance(t)
  /\ UNCHANGED <<chanVars, lockRest>>

\* Unlock()
LockRelease(t) ==
  /\ Cur(t).k = "Unlock"
  /\ Holds(t, Cur(t).m)
  /\ IF Cur(t).m = "s" THEN sMutex' = NoThread /\ UNCHANGED rMutex
                       ELSE rMutex' = NoThread /\ UNCHANGED sMutex
  /\ Advance(t)
  /\ UNCHANGED <<chanVars, lockRest>>

\* an operation that may wait comes back, or a select/default send is made
LockStep(t) ==
  /\ Cur(t).k \in {"Block", "Signal"}
  /\ Advance(t)
  /\ UNCHANGED <<sMutex, rMutex, chanVars, lockRest>>

\* 420: the plain send waits while the slot of onStreamClose is full
LockSend(t) ==
  /\ Cur(t).k = "Send"
  /\ ~onStreamClose["A"]
  /\ onStreamClose' = [onStreamClose EXCEPT !["A"] = TRUE]
  /\ Advance(t)
  /\ UNCHANGED <<sMutex, rMutex, onFlush, onAck, onWrite, onRead, lockRest>>

\* 317, 336: the receive waits while the slot of onStreamClose is empty
LockRecv(t) ==
  /\ Cur(t).k = "Recv"
  /\ onStreamClose["A"]
  /\ onStreamClose' = [onStreamClose EXCEPT !["A"] = FALSE]
  /\ Advance(t)
  /\ UNCHANGED <<sMutex, rMutex, onFlush, onAck, onWrite, onRead, lockRest>>

NextLocks ==
  \E t \in Threads :
    \/ LockBegin(t)
    \/ LockAcquire(t)
    \/ LockRelease(t)
    \/ LockStep(t)
    \/ LockSend(t)
    \/ LockRecv(t)

SpecLocks == InitIn({ScenClose}) /\ [][NextLocks]_vars

\* t waits in Lock() for a mutex that u holds
WaitsFor(t, u) == Cur(t).k = "Lock" /\ Holder(Cur(t).m) = u

\* C39: the stream mutex and the retransmission mutex never deadlock. The
\* only nested acquisition is stream-then-retransmission, in the writer; no
\* thread takes the stream mutex while it holds the retransmission mutex; no
\* thread waits on a channel or a substrate operation while it holds a
\* mutex; no two threads wait for each other's mutex, no thread waits for a
\* mutex it holds itself, and no thread returns with a mutex held.
C39_MutexesNeverDeadlock ==
  \A t \in Threads :
    /\ (Cur(t).k = "Lock" /\ (Holds(t, "s") \/ Holds(t, "r"))) =>
         (t = "writer" /\ Cur(t).m = "r" /\ Holds(t, "s") /\ ~Holds(t, "r"))
    /\ Cur(t).k \in {"Block", "Recv"} => ~Holds(t, "s") /\ ~Holds(t, "r")
    /\ (Cur(t).k = "Send" /\ (Holds(t, "s") \/ Holds(t, "r"))) =>
         ~onStreamClose["A"]
    /\ Cur(t).k \in {"Idle", "Return"} => ~Holds(t, "s") /\ ~Holds(t, "r")
    /\ ~WaitsFor(t, t)
    /\ \A u \in Threads \ {t} : ~(WaitsFor(t, u) /\ WaitsFor(u, t))

\* C39 witness: the writer holds the stream mutex and is about to take the
\* retransmission mutex, which the timer worker holds inside Push, while
\* the reader waits for the stream mutex.
C39_Witness ==
  /\ Holds("writer", "s")
  /\ Cur("writer") = LockOp("r")
  /\ Holds("timer", "r")
  /\ Cur("reader") = LockOp("s")

====
